---- MODULE Spec2Model ----
(***************************************************************************)
(* A model of hashchain.c, the command line hash chain tool: main, the     *)
(* create and verify subcommands, hash_chain_create, hash_chain_verify,    *)
(* hash_chain_print and base64_decode.                                     *)
(*                                                                         *)
(* Bytes are the integers 0..255, a buffer is a sequence of bytes, a text  *)
(* (a C string, standard output) is a sequence of one-character strings.   *)
(* The digest functions belong to the crypto library: they are modelled by *)
(* a deterministic function of the algorithm and of every input byte, with *)
(* the library's output sizes.  The base64 filter is modelled by what it   *)
(* does to the bytes: the alphabet, the padding, and the line break the    *)
(* encoder puts after every 48 input bytes and at each flush.              *)
(***************************************************************************)
EXTENDS Integers, Sequences, FiniteSets, TLC

VARIABLES
  pc,        \* where the process is: a function's name, "exit" or "crashed"
  argv,      \* main's argument vector, argv[1] being C's argv[0]
  rv,        \* the exit status; "none" while running, "signal" when killed
  out,       \* standard output, a text
  err,       \* standard error, the sequence of message formats written
  hash,      \* const EVP_MD *hash of cmd_create / cmd_verify
  length,    \* int length of cmd_create
  chain,     \* struct hash_chain: digest_size, chain_length, data, and the
             \* state of the allocation behind data
  idx,       \* the loop variable of hash_chain_create / hash_chain_print
  access,    \* the buffer offsets the last step of hash_chain_create used
  qhash,     \* cmd_verify: the decoded candidate buffer and how many of its
  thash,     \* bytes base64_decode wrote (the rest is uninitialised memory)
  res,       \* bool res of cmd_verify
  digests,   \* how many times a digest was computed (EVP_DigestFinal_ex)
  seen,      \* per outcome of verify, the exit statuses observed so far
  trusted,   \* the verifier's currently trusted tip
  step       \* the verifier's last step: candidate, tip before, answer

vars == <<pc, argv, rv, out, err, hash, length, chain, idx, access,
          qhash, thash, res, digests, seen, trusted, step>>

\* ------------------------------------------------------------------ bounds

\* The largest chain length given on the command line.
MaxLen == 3

\* The longest sequence of verification steps of the verifier.
MaxSteps == 3

\* ------------------------------------------------------- stdlib constants

EXIT_SUCCESS == "EXIT_SUCCESS"

EXIT_FAILURE == "EXIT_FAILURE"

NULL == "NULL"

\* A buffer pointer that points at nothing yet (or no longer).
NoBuffer == <<>>

NL == "\n"

\* ------------------------------------------------------------- characters

Digits == <<"0", "1", "2", "3", "4", "5", "6", "7", "8", "9">>

B64Alphabet ==
  <<"A", "B", "C", "D", "E", "F", "G", "H", "I", "J", "K", "L", "M",
    "N", "O", "P", "Q", "R", "S", "T", "U", "V", "W", "X", "Y", "Z",
    "a", "b", "c", "d", "e", "f", "g", "h", "i", "j", "k", "l", "m",
    "n", "o", "p", "q", "r", "s", "t", "u", "v", "w", "x", "y", "z",
    "0", "1", "2", "3", "4", "5", "6", "7", "8", "9", "+", "/">>

B64Chars == {B64Alphabet[i] : i \in 1..64}

\* The 6-bit value of a character of the alphabet.
B64Value == [c \in B64Chars |-> (CHOOSE i \in 1..64 : B64Alphabet[i] = c) - 1]

\* The byte of a character of a C string (ASCII), for the characters used.
Ord(c) ==
  LET v == B64Value[c]
  IN  IF v < 26 THEN 65 + v
      ELSE IF v < 52 THEN 97 + (v - 26)
      ELSE IF v < 62 THEN 48 + (v - 52)
      ELSE IF v = 62 THEN 43 ELSE 47

Bytes(str) == [i \in 1..Len(str) |-> Ord(str[i])]

\* ------------------------------------------------------ the digest provider

Algorithms == {"md5", "sha256", "sha384", "sha512"}

EVP_get_digestbyname(name) == IF name \in Algorithms THEN name ELSE NULL

EVP_MD_size(type) ==
  CASE type = "md5" -> 16
    [] type = "sha256" -> 32
    [] type = "sha384" -> 48
    [] type = "sha512" -> 64

\* The input bytes lo..hi of a digest computation, mixed pairwise: every
\* byte and its position count.
RECURSIVE Absorb(_, _, _)
Absorb(data, lo, hi) ==
  IF lo > hi THEN 40503
  ELSE IF lo = hi THEN (data[lo] * 257) + lo
  ELSE LET mid == (lo + hi) \div 2
       IN  ((Absorb(data, lo, mid) * 31) + (Absorb(data, mid + 1, hi) * 17) + 7) % 65521

\* EVP_DigestInit_ex, EVP_DigestUpdate(data, Len(data)), EVP_DigestFinal_ex:
\* the digest of exactly the bytes of data, EVP_MD_size(type) bytes long.
Digest(type, data) ==
  LET n == EVP_MD_size(type)
      a == (Absorb(data, 1, Len(data)) + (n * 1009) + Len(data)) % 65521
  IN  [k \in 1..n |-> ((a * k) + (a \div 251) + (k * k)) % 256]

\* -------------------------------------------------------------- base64

\* EVP_EncodeBlock: every 3 bytes give 4 characters of the alphabet, a last
\* group of 1 or 2 bytes is padded with '='.
EncodeBlock(b) ==
  LET n == Len(b)
      At(i) == IF i <= n THEN b[i] ELSE 0
      Char(j) ==
        LET g == 3 * ((j - 1) \div 4)
            k == (j - 1) % 4
        IN  IF k = 0 THEN B64Alphabet[(At(g + 1) \div 4) + 1]
            ELSE IF k = 1
              THEN B64Alphabet[((At(g + 1) % 4) * 16) + (At(g + 2) \div 16) + 1]
            ELSE IF k = 2
              THEN IF g + 2 > n THEN "="
                   ELSE B64Alphabet[((At(g + 2) % 16) * 4) + (At(g + 3) \div 64) + 1]
            ELSE IF g + 3 > n THEN "="
                 ELSE B64Alphabet[(At(g + 3) % 64) + 1]
  IN  [j \in 1..(4 * ((n + 2) \div 3)) |-> Char(j)]

\* The input bytes of one output line of the base64 filter (64 characters).
B64LineBytes == 48

\* BIO_write of the bytes b through the base64 filter, then BIO_flush: every
\* full group of B64LineBytes bytes is written as a line, and the flush
\* writes what is left, if anything, as a last line.
RECURSIVE BIO_write_flush(_)
BIO_write_flush(b) ==
  IF Len(b) = 0 THEN <<>>
  ELSE IF Len(b) < B64LineBytes THEN EncodeBlock(b) \o <<NL>>
  ELSE EncodeBlock(SubSeq(b, 1, B64LineBytes)) \o <<NL>>
         \o BIO_write_flush(SubSeq(b, B64LineBytes + 1, Len(b)))

\* EVP_DecodeBlock on a text whose length is a multiple of 4: ok is FALSE
\* on a character outside the alphabet or on padding before the last group.
DecodeBlock(t) ==
  LET n == Len(t)
      pad == IF n = 0 THEN 0
             ELSE IF t[n - 1] = "=" /\ t[n] = "=" THEN 2
             ELSE IF t[n] = "=" THEN 1 ELSE 0
      Value(j) == IF j > n - pad THEN 0 ELSE B64Value[t[j]]
      Byte(i) ==
        LET g == 4 * ((i - 1) \div 3)
            k == (i - 1) % 3
        IN  IF k = 0 THEN (Value(g + 1) * 4) + (Value(g + 2) \div 16)
            ELSE IF k = 1 THEN ((Value(g + 2) % 16) * 16) + (Value(g + 3) \div 4)
            ELSE ((Value(g + 3) % 4) * 64) + Value(g + 4)
  IN  IF \A j \in 1..(n - pad) : t[j] \in B64Chars
      THEN [ok |-> TRUE, bytes |-> [i \in 1..((3 * (n \div 4)) - pad) |-> Byte(i)]]
      ELSE [ok |-> FALSE, bytes |-> <<>>]

\* The bytes the base64 filter yields for the text str read in one piece
\* (BIO_FLAGS_BASE64_NO_NL): whole groups of 4 characters are decoded, a
\* decoding error yields nothing.
B64Decoded(str) ==
  LET jj == Len(str) - (Len(str) % 4)
      d == DecodeBlock(SubSeq(str, 1, jj))
  IN  IF d.ok THEN d.bytes ELSE <<>>

\* ---------------------------------------------------------------- stdio

IsDigit(c) == \E d \in 1..10 : Digits[d] = c

DigitValue(c) == (CHOOSE d \in 1..10 : Digits[d] = c) - 1

RECURSIVE SkipSpace(_, _)
SkipSpace(str, i) ==
  IF i <= Len(str) /\ str[i] = " " THEN SkipSpace(str, i + 1) ELSE i

RECURSIVE ScanDigits(_, _, _)
ScanDigits(str, i, acc) ==
  IF i <= Len(str) /\ IsDigit(str[i])
  THEN ScanDigits(str, i + 1, [n |-> acc.n + 1, v |-> (acc.v * 10) + DigitValue(str[i])])
  ELSE acc

\* sscanf(str, "%d", &value): white space, an optional sign, decimal digits,
\* anything after them ignored; conv is sscanf's return value.
sscanf_d(str) ==
  LET i0 == SkipSpace(str, 1)
      signed == i0 <= Len(str) /\ str[i0] \in {"-", "+"}
      i1 == IF signed THEN i0 + 1 ELSE i0
      d == ScanDigits(str, i1, [n |-> 0, v |-> 0])
  IN  IF d.n = 0 THEN [conv |-> IF i0 > Len(str) THEN -1 ELSE 0, value |-> 0]
      ELSE [conv |-> 1, value |-> IF signed /\ str[i0] = "-" THEN 0 - d.v ELSE d.v]

\* ---------------------------------------------------------------- memory

Zeroes(n) == [i \in 1..n |-> 0]

\* calloc(nmemb, size) with nmemb an int converted to size_t: a zeroed block
\* of nmemb * size bytes; a negative nmemb is a huge size_t whose product
\* overflows, and calloc returns NULL; for 0 the library may return either
\* NULL or a block of no bytes.  The few bytes of a chain of the lengths
\* modelled are taken to be available.
calloc(nmemb, size) ==
  IF nmemb < 0 THEN {[alloc |-> NULL, data |-> <<>>]}
  ELSE IF nmemb = 0
    THEN {[alloc |-> NULL, data |-> <<>>], [alloc |-> "block", data |-> <<>>]}
  ELSE {[alloc |-> "block", data |-> Zeroes(nmemb * size)]}

InBuffer(c, off, n) == c.alloc = "block" /\ 0 <= off /\ off + n <= Len(c.data)

\* The n bytes at data + off.
Load(c, off, n) == SubSeq(c.data, off + 1, off + n)

\* What storing the bytes b at data + off can do: inside the buffer it
\* stores them; through NULL it faults; past the end of the block it is a
\* heap overflow, which either faults or goes unnoticed and corrupts the heap.
Store(c, off, b) ==
  IF InBuffer(c, off, Len(b))
  THEN {[fault |-> FALSE,
         chain |-> [c EXCEPT !.data = [i \in 1..Len(c.data) |->
                      IF off < i /\ i <= off + Len(b) THEN b[i - off] ELSE c.data[i]]]]}
  ELSE IF c.alloc = NULL THEN {[fault |-> TRUE, chain |-> c]}
  ELSE {[fault |-> TRUE, chain |-> c],
        [fault |-> FALSE, chain |-> [c EXCEPT !.heap = "corrupt"]]}

\* ------------------------------------------------------ hashchain.c

\* argc and argv as cmd_create and cmd_verify get them (argc - 1, argv + 1).
argc == Len(argv) - 1

Arg(k) == argv[k + 2]

NoChain == [digest_size |-> 0, chain_length |-> 0, data |-> <<>>,
            alloc |-> "none", heap |-> "ok"]

NoAccess == [op |-> "none", read |-> 0, write |-> 0]

\* The byte offset of element i of a chain: data + i * digest_size.
ElemOffset(i, digest_size) == i * digest_size

\* Element i of the chain c, 0 <= i < chain_length.
Elem(c, i) == Load(c, ElemOffset(i, c.digest_size), c.digest_size)

\* Fail returning EXIT_SUCCESS after the message.
Fail_success(msgs) ==
  /\ err' = err \o msgs
  /\ rv' = EXIT_SUCCESS
  /\ pc' = "exit"

\* An error return of main or of a command: the messages go to standard
\* error and the status is EXIT_FAILURE.
Fail(msgs) ==
  /\ err' = err \o msgs
  /\ rv' = EXIT_FAILURE
  /\ pc' = "exit"

\* main: the subcommand is chosen by argv[1]; main returns the command's rv.
main ==
  /\ pc = "main"
  /\ IF Len(argv) < 2 THEN Fail(<<"error: subcommand required">>)
     ELSE IF argv[2] = "create" THEN pc' = "cmd_create" /\ UNCHANGED <<err, rv>>
     ELSE IF argv[2] = "verify" THEN pc' = "cmd_verify" /\ UNCHANGED <<err, rv>>
     ELSE Fail(<<"error: subcommand %s not found">>)
  /\ UNCHANGED <<argv, out, hash, length, chain, idx, access, qhash, thash,
                 res, digests, seen, trusted, step>>

\* cmd_create up to its call of hash_chain_create.
cmd_create ==
  /\ pc = "cmd_create"
  /\ IF argc < 4
     THEN /\ Fail(<<"error: too few args", "usage: %s HASH LENGTH BASE">>)
          /\ UNCHANGED <<hash, length>>
     ELSE IF EVP_get_digestbyname(Arg(1)) = NULL
     THEN /\ Fail(<<"error: hash %s doesn't exist">>)
          /\ hash' = NULL
          /\ UNCHANGED length
     ELSE IF sscanf_d(Arg(2)).conv # 1
     THEN /\ Fail(<<"error: can't convert %s to integer">>)
          /\ hash' = EVP_get_digestbyname(Arg(1))
          /\ UNCHANGED length
     ELSE /\ hash' = EVP_get_digestbyname(Arg(1))
          /\ length' = sscanf_d(Arg(2)).value
          /\ pc' = "hash_chain_create"
          /\ UNCHANGED <<err, rv>>
  /\ UNCHANGED <<argv, out, chain, idx, access, qhash, thash, res, digests,
                 seen, trusted, step>>

\* A step of hash_chain_create that stores the digest d at data + off.
StoreDigest(c, off, d, next) ==
  \E s \in Store(c, off, d) :
    /\ chain' = s.chain
    /\ IF s.fault THEN pc' = "crashed" /\ rv' = "signal"
       ELSE pc' = next /\ rv' = rv

\* hash_chain_create, lines 69-77: the allocation and the hash of the base.
hash_chain_create ==
  /\ pc = "hash_chain_create"
  /\ LET digest_size == EVP_MD_size(hash)
         base == Bytes(Arg(3))
     IN  \E m \in calloc(length, digest_size) :
           StoreDigest([digest_size |-> digest_size, chain_length |-> length,
                        data |-> m.data, alloc |-> m.alloc, heap |-> "ok"],
                       0, Digest(hash, base), "hash_chain_create_loop")
  /\ idx' = 1
  /\ access' = [op |-> "base", read |-> 0, write |-> 0]
  /\ digests' = digests + 1
  /\ UNCHANGED <<argv, out, err, hash, length, qhash, thash, res, seen,
                 trusted, step>>

\* NextDigest hashing one byte too few of the previous element.
NextDigest_short(c, type, i) ==
  Digest(type, Load(c, ElemOffset(i - 1, c.digest_size), c.digest_size - 1))

\* The digest that turn i of the loop computes: the hash of the digest_size
\* bytes of element i - 1.
NextDigest(c, type, i) ==
  Digest(type, Load(c, ElemOffset(i - 1, c.digest_size), c.digest_size))

\* hash_chain_create, lines 80-89: one turn of the loop, or the return.
hash_chain_create_loop ==
  /\ pc = "hash_chain_create_loop"
  /\ IF idx < chain.chain_length
     THEN LET from == ElemOffset(idx - 1, chain.digest_size)
              to == ElemOffset(idx, chain.digest_size)
          IN  /\ StoreDigest(chain, to, NextDigest(chain, hash, idx),
                             "hash_chain_create_loop")
              /\ idx' = idx + 1
              /\ access' = [op |-> "elem", read |-> from, write |-> to]
              /\ digests' = digests + 1
     ELSE /\ pc' = "hash_chain_print"
          /\ idx' = 0
          /\ UNCHANGED <<chain, rv, access, digests>>
  /\ UNCHANGED <<argv, out, err, hash, length, qhash, thash, res, seen,
                 trusted, step>>

\* free(p) of a block of a heap that an overflow has corrupted either goes
\* through or aborts the process.
Free(c, status) ==
  IF c.heap = "corrupt"
  THEN \/ pc' = "exit" /\ rv' = status
       \/ pc' = "crashed" /\ rv' = "signal"
  ELSE pc' = "exit" /\ rv' = status

\* hash_chain_print: one turn of its loop, or its return to cmd_create,
\* which frees the chain and returns EXIT_SUCCESS.
hash_chain_print ==
  /\ pc = "hash_chain_print"
  /\ IF idx < chain.chain_length
     THEN /\ out' = out \o BIO_write_flush(Elem(chain, idx))
          /\ idx' = idx + 1
          /\ UNCHANGED <<pc, rv>>
     ELSE /\ Free(chain, EXIT_SUCCESS)
          /\ UNCHANGED <<out, idx>>
  /\ UNCHANGED <<argv, err, hash, length, chain, access, qhash, thash, res,
                 digests, seen, trusted, step>>

\* memcmp(a, b, n): 0 when the first n bytes agree, else the difference of
\* the first two bytes that differ.
memcmp(a, b, n) ==
  LET diff == {i \in 1..n : a[i] # b[i]}
  IN  IF diff = {} THEN 0
      ELSE LET i == CHOOSE j \in diff : \A k \in diff : j <= k
           IN  a[i] - b[i]

\* hash_chain_verify returning result != 0.
hash_chain_verify_inverted(h, tip, type) ==
  LET digest_len == EVP_MD_size(type)
      data == Digest(type, SubSeq(h, 1, digest_len))
      result == memcmp(data, tip, digest_len)
  IN  result # 0

\* hash_chain_verify with h and tip swapped: hash(tip) == h.
hash_chain_verify_swapped(h, tip, type) ==
  LET digest_len == EVP_MD_size(type)
      data == Digest(type, SubSeq(tip, 1, digest_len))
      result == memcmp(data, h, digest_len)
  IN  result = 0

\* hash_chain_verify returning result <= 0.
hash_chain_verify_le(h, tip, type) ==
  LET digest_len == EVP_MD_size(type)
      data == Digest(type, SubSeq(h, 1, digest_len))
      result == memcmp(data, tip, digest_len)
  IN  result <= 0

\* hash_chain_verify(h, tip, hash): true if hash(h) == tip.
hash_chain_verify(h, tip, type) ==
  LET digest_len == EVP_MD_size(type)
      data == Digest(type, SubSeq(h, 1, digest_len))
      result == memcmp(data, tip, digest_len)
  IN  result = 0

\* The chain element i (from 0) of a seed, by the definition of a hash
\* chain: Hash0 = H(Base), HashN = H(HashN-1).
RECURSIVE ChainElem(_, _, _)
ChainElem(type, base, i) ==
  IF i = 0 THEN Digest(type, base) ELSE Digest(type, ChainElem(type, base, i - 1))

Hello == <<"h", "e", "l", "l", "o">>

\* Digests that memory handed out by malloc may still hold.
KnownDigests == {ChainElem(a, Bytes(Hello), i) : a \in Algorithms, i \in 0..1}

\* What a block of n bytes fresh from malloc may hold: unspecified bytes.
\* Three kinds of content stand for them.
Uninitialised(n) ==
  {Zeroes(n), [i \in 1..n |-> 170]} \cup {d \in KnownDigests : Len(d) = n}

\* base64_decode(str, explen): a malloc'ed buffer of explen bytes into which
\* BIO_read has put at most explen decoded bytes; its return value is not
\* looked at, so the bytes it did not write stay what malloc handed out.
base64_decode(str, explen) ==
  LET d == B64Decoded(str)
      n == IF Len(d) < explen THEN Len(d) ELSE explen
  IN  IF n = explen THEN {SubSeq(d, 1, explen)}
      ELSE {[i \in 1..explen |-> IF i <= n THEN d[i] ELSE g[i]] :
              g \in Uninitialised(explen)}

\* cmd_verify up to its call of hash_chain_verify.
cmd_verify ==
  /\ pc = "cmd_verify"
  /\ IF argc < 4
     THEN /\ Fail(<<"error: too few args", "usage: %s ALGO QUERY ANCHOR">>)
          /\ UNCHANGED <<hash, qhash, thash>>
     ELSE IF EVP_get_digestbyname(Arg(1)) = NULL
     THEN /\ Fail(<<"error: hash %s doesn't exist">>)
          /\ hash' = NULL
          /\ UNCHANGED <<qhash, thash>>
     ELSE LET digest_len == EVP_MD_size(EVP_get_digestbyname(Arg(1)))
          IN  /\ hash' = EVP_get_digestbyname(Arg(1))
              /\ qhash' \in base64_decode(Arg(2), digest_len)
              /\ thash' \in base64_decode(Arg(3), digest_len)
              /\ pc' = "hash_chain_verify"
              /\ UNCHANGED <<err, rv>>
  /\ UNCHANGED <<argv, out, length, chain, idx, access, res, digests, seen,
                 trusted, step>>

\* cmd_verify, line 207: bool res = hash_chain_verify(qhash, thash, hash).
cmd_verify_call ==
  /\ pc = "hash_chain_verify"
  /\ res' = hash_chain_verify(qhash, thash, hash)
  /\ digests' = digests + 1
  /\ pc' = "cmd_verify_result"
  /\ UNCHANGED <<argv, rv, out, err, hash, length, chain, idx, access, qhash,
                 thash, seen, trusted, step>>

Success == <<"s", "u", "c", "c", "e", "s", "s", NL>>

Failure == <<"f", "a", "i", "l", "u", "r", "e", NL>>

\* VerifyStatus returning EXIT_SUCCESS whatever the answer.
VerifyStatus_always(r) == EXIT_SUCCESS

\* The exit status cmd_verify returns for the answer of hash_chain_verify.
VerifyStatus(r) == IF r THEN EXIT_SUCCESS ELSE EXIT_FAILURE

\* cmd_verify, lines 208-216: the buffers are freed, the answer is printed.
cmd_verify_result ==
  /\ pc = "cmd_verify_result"
  /\ qhash' = NoBuffer
  /\ thash' = NoBuffer
  /\ out' = out \o (IF res THEN Success ELSE Failure)
  /\ rv' = VerifyStatus(res)
  /\ pc' = "exit"
  /\ UNCHANGED <<argv, err, hash, length, chain, idx, access, res, digests,
                 seen, trusted, step>>

\* ------------------------------------------------------------ the inputs

HashNames == Algorithms \cup {"notareal hash"}

Seeds == {Hello, <<>>}

LengthArgs ==
  {<<Digits[n + 1]>> : n \in 0..MaxLen}
    \cup {<<"-", "1">>, <<"a", "b", "c">>, <<"2", "x">>, <<" ", "2">>, <<>>}

CreateArgvs ==
  {<<"hashchain", "create", h, l, s>> : h \in HashNames, l \in LengthArgs, s \in Seeds}
    \cup {<<"hashchain", "create", "sha256", <<"2">>>>}

\* The text of chain element i of the seed "hello", as create prints it
\* without the line breaks.
Text(type, i) == EncodeBlock(ChainElem(type, Bytes(Hello), i))

\* A text that decodes to the first 16 bytes of a sha256 digest.
ShortText == EncodeBlock(SubSeq(ChainElem("sha256", Bytes(Hello), 0), 1, 16))

\* A text that decodes to a sha256 digest followed by 10 more bytes.
LongText == EncodeBlock(ChainElem("sha256", Bytes(Hello), 0) \o [i \in 1..10 |-> 120])

\* A text with characters outside the base64 alphabet.
InvalidText == <<"!", "!", "!", "!">>

QueryTexts ==
  {Text("sha256", 0), Text("sha256", 1), Text("md5", 0), Text("sha512", 0),
   ShortText, LongText, InvalidText}

AnchorTexts == {Text("sha256", 1), Text("md5", 1), Text("sha512", 1), ShortText}

VerifyArgvs ==
  {<<"hashchain", "verify", h, q, t>> : h \in HashNames, q \in QueryTexts, t \in AnchorTexts}
    \cup {<<"hashchain", "verify", "sha256", Text("sha256", 0)>>}

Argvs == CreateArgvs \cup VerifyArgvs \cup {<<"hashchain">>, <<"hashchain", "bogus">>}

Outcomes == {"match", "mismatch", "malformed"}

NoStep == [n |-> 0, accepted |-> 0, candidate |-> <<>>, before |-> <<>>, answer |-> FALSE]

NoVerifier == [hash |-> NULL, tip |-> <<>>]

\* The process as main is entered with the argument vector a.
Start(a) ==
  /\ pc = "main"
  /\ argv = a
  /\ rv = "none"
  /\ out = <<>>
  /\ err = <<>>
  /\ hash = NULL
  /\ length = 0
  /\ chain = NoChain
  /\ idx = 0
  /\ access = NoAccess
  /\ qhash = NoBuffer
  /\ thash = NoBuffer
  /\ res = FALSE
  /\ digests = 0

Init ==
  /\ \E a \in Argvs : Start(a)
  /\ seen = [o \in Outcomes |-> {}]
  /\ trusted = NoVerifier
  /\ step = NoStep

Next ==
  \/ main
  \/ cmd_create
  \/ hash_chain_create
  \/ hash_chain_create_loop
  \/ hash_chain_print
  \/ cmd_verify
  \/ cmd_verify_call
  \/ cmd_verify_result

\* One run of the tool on any argument vector.
Spec == Init /\ [][Next]_vars

\* ------------------------------------------------- the tool run repeatedly

\* The outcome of a verify run as its caller classes it: malformed input
\* (unknown algorithm, a text that does not decode to a digest's length), a
\* candidate that is the preimage of the anchor, or one that is not.
Outcome ==
  LET type == EVP_get_digestbyname(Arg(1))
  IN  IF type = NULL THEN "malformed"
      ELSE IF Len(B64Decoded(Arg(2))) # EVP_MD_size(type)
              \/ Len(B64Decoded(Arg(3))) # EVP_MD_size(type) THEN "malformed"
      ELSE IF Digest(type, B64Decoded(Arg(2))) = B64Decoded(Arg(3)) THEN "match"
      ELSE "mismatch"

RunArgvs ==
  {<<"hashchain", "verify", h, q, t>> :
     h \in {"sha256", "notareal hash"},
     q \in {Text("sha256", 0), Text("sha256", 1), ShortText},
     t \in {Text("sha256", 1), ShortText}}

InitRuns ==
  /\ \E a \in RunArgvs : Start(a)
  /\ seen = [o \in Outcomes |-> {}]
  /\ trusted = NoVerifier
  /\ step = NoStep

\* The caller notes the exit status of the run that ended and runs verify
\* again.
Rerun ==
  /\ pc = "exit"
  /\ seen' = [seen EXCEPT ![Outcome] = @ \cup {rv}]
  /\ argv' \in RunArgvs
  /\ pc' = "main"
  /\ rv' = "none"
  /\ out' = <<>>
  /\ err' = <<>>
  /\ hash' = NULL
  /\ res' = FALSE
  /\ digests' = 0
  /\ UNCHANGED <<length, chain, idx, access, qhash, thash, trusted, step>>

NextRuns ==
  \/ main
  \/ cmd_verify
  \/ cmd_verify_call
  \/ cmd_verify_result
  \/ Rerun

\* The verify command run again and again, its exit statuses noted.
SpecRuns == InitRuns /\ [][NextRuns]_vars

\* ------------------------------------------------------------ the verifier

\* The digests a counterparty may present to a verifier of algorithm type.
Candidates(type) ==
  {ChainElem(type, Bytes(s), i) : s \in Seeds, i \in 0..(MaxLen - 1)}
    \cup {Zeroes(EVP_MD_size(type))}

InitVerifier ==
  /\ pc = "idle"
  /\ argv = <<>>
  /\ rv = "none"
  /\ out = <<>>
  /\ err = <<>>
  /\ hash = NULL
  /\ length = 0
  /\ chain = NoChain
  /\ idx = 0
  /\ access = NoAccess
  /\ qhash = NoBuffer
  /\ thash = NoBuffer
  /\ res = FALSE
  /\ digests = 0
  /\ seen = [o \in Outcomes |-> {}]
  /\ \E type \in Algorithms, s \in Seeds :
       trusted = [hash |-> type, tip |-> ChainElem(type, Bytes(s), MaxLen - 1)]
  /\ step = NoStep

\* One verification step of a long-lived verifier: it calls
\* hash_chain_verify(candidate, tip, hash) and, when the answer is true, the
\* candidate becomes the trusted tip.
VerifierStep ==
  /\ step.n < MaxSteps
  /\ \E candidate \in Candidates(trusted.hash) :
       LET answer == hash_chain_verify(candidate, trusted.tip, trusted.hash)
       IN  /\ step' = [n |-> step.n + 1,
                       accepted |-> step.accepted + (IF answer THEN 1 ELSE 0),
                       candidate |-> candidate,
                       before |-> trusted.tip,
                       answer |-> answer]
           /\ trusted' = IF answer THEN [trusted EXCEPT !.tip = candidate] ELSE trusted
  /\ UNCHANGED <<pc, argv, rv, out, err, hash, length, chain, idx, access,
                 qhash, thash, res, digests, seen>>

NextVerifier == VerifierStep

\* A verifier walking a chain backwards, one call of hash_chain_verify a step.
SpecVerifier == InitVerifier /\ [][NextVerifier]_vars

\* ------------------------------------------------------------ the claims

\* The subcommand of the run.
Cmd == IF Len(argv) >= 2 THEN argv[2] ELSE ""

\* C1: for every seed (the empty one too), every algorithm and every length
\* n >= 1, the chain hash_chain_create returns has chain_length n, digests of
\* the algorithm's size, element 0 the hash of the seed and each element i
\* the hash of the digest_size bytes of element i - 1.
C1_ChainIsIteratedHash ==
  (pc = "hash_chain_print" /\ length >= 1) =>
    /\ chain.chain_length = length
    /\ chain.digest_size = EVP_MD_size(hash)
    /\ Len(chain.data) = length * EVP_MD_size(hash)
    /\ \A i \in 0..(length - 1) :
         Elem(chain, i) = ChainElem(hash, Bytes(Arg(3)), i)

\* C1 witness: a chain of two or more elements built from the empty seed.
C1_Witness ==
  pc = "hash_chain_print" /\ length >= 2 /\ Arg(3) = <<>> /\ idx = 0

\* C2: hash_chain_verify answers true if and only if the digest of the
\* candidate equals the tip byte for byte.
C2_VerifyIffPreimage ==
  pc = "cmd_verify_result" => (res <=> (Digest(hash, qhash) = thash))

\* C2 witness: a check that answered true.
C2_Witness ==
  pc = "cmd_verify_result" /\ res /\ Len(qhash) = EVP_MD_size(hash)

\* C3: in a chain built by hash_chain_create, every element verifies against
\* the one after it: hash_chain_verify(chain[i-1], chain[i]) is true.
C3_LinksVerify ==
  pc = "hash_chain_print" =>
    \A i \in 1..(chain.chain_length - 1) :
      hash_chain_verify(Elem(chain, i - 1), Elem(chain, i), hash)

\* C3 witness: a built chain with at least two links.
C3_Witness == pc = "hash_chain_print" /\ chain.chain_length >= 3 /\ idx = 0

\* C4: in every verification step the answer is a boolean, it is false for a
\* candidate that does not hash to the trusted tip, a false answer leaves the
\* trusted tip as it was, and the tip changes only on a true answer, to the
\* candidate of that step; the answer depends on nothing but the candidate,
\* the tip and the algorithm.
C4_TipAdvancesOnlyOnTrue ==
  [][ /\ step'.answer \in BOOLEAN
      /\ step'.answer = (Digest(trusted.hash, step'.candidate) = trusted.tip)
      /\ step'.before = trusted.tip
      /\ (~step'.answer => trusted' = trusted)
      /\ (trusted' # trusted =>
            /\ step'.answer
            /\ trusted' = [trusted EXCEPT !.tip = step'.candidate]) ]_vars

\* C4 witness: after an accepted candidate, a rejected one left the tip alone.
C4_Witness ==
  /\ step.n >= 2
  /\ step.accepted >= 1
  /\ ~step.answer
  /\ trusted.tip = step.before

\* The length argument of create is an integer that is not positive.
NonPositiveLength ==
  /\ Cmd = "create"
  /\ argc >= 4
  /\ EVP_get_digestbyname(Arg(1)) # NULL
  /\ sscanf_d(Arg(2)).conv = 1
  /\ sscanf_d(Arg(2)).value <= 0

\* C5: create with a chain length that is zero or negative ends with the
\* failure status and produces no chain.
C5_InvalidLengthFails ==
  (NonPositiveLength /\ pc \notin {"main", "cmd_create"}) =>
    /\ pc = "exit"
    /\ rv = EXIT_FAILURE
    /\ chain = NoChain
    /\ digests = 0
    /\ out = <<>>

\* A text that is base64 from end to end.
WellFormed(str) == Len(str) % 4 = 0 /\ DecodeBlock(str).ok

\* C6: decode rejects a text whose decoded length differs from the expected
\* one, so the verify command never runs the hash comparison on a candidate
\* or a tip whose decoded length is not the digest length.
C6_DecodeRejectsLengthMismatch ==
  (pc = "hash_chain_verify" /\ WellFormed(Arg(2)) /\ WellFormed(Arg(3))) =>
    /\ Len(B64Decoded(Arg(2))) = EVP_MD_size(hash)
    /\ Len(B64Decoded(Arg(3))) = EVP_MD_size(hash)

C8_UnknownAlgorithm ==
  (Cmd \in {"create", "verify"} /\ argc >= 4 /\ EVP_get_digestbyname(Arg(1)) = NULL) =>
    /\ pc \in {"main", "cmd_create", "cmd_verify", "exit"}
    /\ out = <<>>
    /\ digests = 0
    /\ chain = NoChain
    /\ qhash = NoBuffer
    /\ thash = NoBuffer
    /\ pc = "exit" => (rv = EXIT_FAILURE /\ err = <<"error: hash %s doesn't exist">>)

\* C8 witness: create has ended on an unknown algorithm name.
C8_Witness ==
  pc = "exit" /\ Cmd = "create" /\ argc >= 4 /\ Arg(1) = "notareal hash"

\* The first n elements of the chain c, one encoded digest a line.
RECURSIVE OneDigestPerLine(_, _)
OneDigestPerLine(c, n) ==
  IF n = 0 THEN <<>>
  ELSE OneDigestPerLine(c, n - 1) \o EncodeBlock(Elem(c, n - 1)) \o <<NL>>

\* C9: hash_chain_print writes one encoded digest per line, each followed by
\* a line terminator, in chain order: N lines for a chain of length N.
C9_OneLinePerDigest ==
  pc = "hash_chain_print" =>
    /\ out = OneDigestPerLine(chain, idx)
    /\ Cardinality({j \in 1..Len(out) : out[j] = NL}) = idx

\* C10: for every chain length cmd_create passes on, every digest that
\* hash_chain_create writes or reads lies inside the buffer it allocated.
C10_AccessesInBuffer ==
  access.op # "none" =>
    /\ 0 <= access.write
    /\ access.write <= (chain.chain_length * chain.digest_size) - chain.digest_size
    /\ InBuffer(chain, access.write, chain.digest_size)
    /\ access.op = "elem" => InBuffer(chain, access.read, chain.digest_size)

====
